---- MODULE Spec2Model ----
(***************************************************************************)
(* A model of the Treasure Data job client (src/src/client/job.ts), of the  *)
(* calls made on it, and of the tool handlers that use it.                  *)
(*                                                                         *)
(* Strings are sequences of tokens.  A token is one character ("k", "/",   *)
(* "$") or one literal word of the program text that no input of the model *)
(* can spell out of smaller tokens ("v3", "Job API Error: HTTP ").  Two    *)
(* strings are equal exactly when their token sequences are equal.         *)
(***************************************************************************)
EXTENDS Integers, Sequences, FiniteSets, TLC

VARIABLES config, client, calls, handler, masked

vars == <<config, client, calls, handler, masked>>

(***************************************************************************)
(* Bounds of the model.                                                    *)
(***************************************************************************)
\* the longest text (transport message, field value, plain body) counted in parts
MaxParts == 2
\* the number of calls that can be in flight on the one client at a time
MaxCalls == 2

(***************************************************************************)
(* String helpers (what the JavaScript string primitives compute).         *)
(***************************************************************************)
\* s.startsWith(p, i - 1), positions counted from 1
StartsWithAt(s, p, i) ==
    /\ i >= 1
    /\ i + Len(p) - 1 <= Len(s)
    /\ \A j \in 1..Len(p) : s[i + j - 1] = p[j]

\* s.indexOf(p, i - 1) + 1: the first position from i on where p occurs, 0
\* when there is none
IndexFrom(s, p, i) ==
    LET places == i..(Len(s) - Len(p) + 1) IN
    IF \E j \in places : StartsWithAt(s, p, j)
    THEN CHOOSE j \in places :
            /\ StartsWithAt(s, p, j)
            /\ \A k \in i..(j - 1) : ~StartsWithAt(s, p, k)
    ELSE 0

\* s.indexOf(p) + 1
IndexOf(s, p) == IndexFrom(s, p, 1)

\* s.includes(p)
Includes(s, p) == IndexOf(s, p) # 0

\* the concatenation of a sequence of strings
RECURSIVE Flatten(_)
Flatten(ss) == IF ss = <<>> THEN <<>> ELSE Head(ss) \o Flatten(Tail(ss))

\* every sequence over S of length at most n
SeqsUpTo(S, n) == UNION {[1..k -> S] : k \in 0..n}

\* String(n) for a non-negative integer: its decimal digits
Digit(d) == <<"0", "1", "2", "3", "4", "5", "6", "7", "8", "9">>[d + 1]

RECURSIVE NumToStr(_)
NumToStr(n) == IF n < 10 THEN <<Digit(n)>> ELSE NumToStr(n \div 10) \o <<Digit(n % 10)>>

\* GetSubstitution of String.prototype.replace for a string pattern (no
\* captures): in the replacement text "$$" is "$", "$&" the matched text,
\* "$`" the text before the match and "$'" the text after it.
RECURSIVE GetSubstitution(_, _, _, _)
GetSubstitution(repl, matched, before, after) ==
    IF repl = <<>> THEN <<>>
    ELSE IF Head(repl) = "$" /\ Len(repl) >= 2 /\ repl[2] \in {"$", "&", "`", "'"}
    THEN (CASE repl[2] = "$" -> <<"$">>
            [] repl[2] = "&" -> matched
            [] repl[2] = "`" -> before
            [] repl[2] = "'" -> after)
         \o GetSubstitution(Tail(Tail(repl)), matched, before, after)
    ELSE <<Head(repl)>> \o GetSubstitution(Tail(repl), matched, before, after)

\* s.replace(pattern, repl) with a string pattern: only the first occurrence
\* is replaced, and repl goes through GetSubstitution.
StringReplace(s, pattern, repl) ==
    LET i == IndexOf(s, pattern) IN
    IF i = 0 THEN s
    ELSE LET before == SubSeq(s, 1, i - 1)
             after  == SubSeq(s, i + Len(pattern), Len(s))
         IN  before \o GetSubstitution(repl, pattern, before, after) \o after

(***************************************************************************)
(* maskApiKey of ../config: the first few characters, a fixed marker, the  *)
(* last few characters; a credential too short to hide anything that way   *)
(* is replaced by the marker alone.                                        *)
(***************************************************************************)
MaskPrefixLen == 4
MaskSuffixLen == 4
MaskMarker == <<".", ".", ".">>

maskApiKey(apiKey) ==
    IF Len(apiKey) <= MaskPrefixLen + MaskSuffixLen
    THEN MaskMarker
    ELSE SubSeq(apiKey, 1, MaskPrefixLen) \o MaskMarker
         \o SubSeq(apiKey, Len(apiKey) - MaskSuffixLen + 1, Len(apiKey))

(***************************************************************************)
(* JavaScript values that reach the client: a string, a function, an       *)
(* object, undefined.                                                      *)
(***************************************************************************)
Undefined == [t |-> "undefined"]
Str(s) == [t |-> "string", v |-> s]
Fn(name) == [t |-> "function", name |-> name]
Num(n) == [t |-> "number", v |-> n]
Null == [t |-> "null"]
Bool(b) == [t |-> "boolean", v |-> b]
\* an object with the given own properties (a function from names to values)
JSObject(fields) == [t |-> "object", fields |-> fields]
Obj == JSObject(<<>>)

\* ToBoolean(v), as `!endpoint` and `a || b` use it
Truthy(v) ==
    CASE v.t = "undefined" -> FALSE
      [] v.t = "null" -> FALSE
      [] v.t = "string" -> v.v # <<>>
      [] v.t = "number" -> v.v # 0
      [] v.t = "boolean" -> v.v
      [] v.t = "nan" -> FALSE
      [] OTHER -> TRUE

\* `${v}` and String(v): a string is itself, a number its decimal digits, a
\* function its source text, a plain object "[object Object]"
TemplateString(v) ==
    CASE v.t = "string" -> v.v
      [] v.t = "number" -> IF v.v < 0 THEN <<"-">> \o NumToStr(0 - v.v) ELSE NumToStr(v.v)
      [] v.t = "function" -> <<"function ", v.name, "() { [native code] }">>
      [] v.t = "object" -> <<"[object Object]">>
      [] v.t = "null" -> <<"null">>
      [] v.t = "boolean" -> IF v.v THEN <<"true">> ELSE <<"false">>
      [] v.t = "nan" -> <<"NaN">>
      [] OTHER -> <<"undefined">>

(***************************************************************************)
(* The endpoint table and the constructor.                                 *)
(***************************************************************************)
TDSites == {"us01", "jp01", "eu01", "ap02", "ap03", "dev"}

JOB_ENDPOINTS ==
    [site \in TDSites |->
        CASE site = "us01" -> "https://api.treasuredata.com"
          [] site = "jp01" -> "https://api.treasuredata.co.jp"
          [] site = "eu01" -> "https://api.eu01.treasuredata.com"
          [] site = "ap02" -> "https://api.ap02.treasuredata.com"
          [] site = "ap03" -> "https://api.ap03.treasuredata.com"
          [] site = "dev" -> "https://api-development.treasuredata.com"]

\* JOB_ENDPOINTS is an object literal: a key it does not own is looked up
\* on Object.prototype, whose members are functions, and whose __proto__
\* accessor yields Object.prototype itself.
ObjectPrototypeFunctions ==
    {"constructor", "hasOwnProperty", "isPrototypeOf", "propertyIsEnumerable",
     "toLocaleString", "toString", "valueOf", "__defineGetter__",
     "__defineSetter__", "__lookupGetter__", "__lookupSetter__"}

\* JOB_ENDPOINTS[site]
EndpointLookup(site) ==
    IF site \in DOMAIN JOB_ENDPOINTS THEN Str(<<JOB_ENDPOINTS[site]>>)
    ELSE IF site \in ObjectPrototypeFunctions
    THEN Fn(IF site = "constructor" THEN "Object" ELSE site)
    ELSE IF site = "__proto__" THEN Obj
    ELSE Undefined

NoError == [name |-> "none", message |-> <<>>, props |-> <<>>]
NewError(name, message) == [name |-> name, message |-> message, props |-> <<>>]

NotConstructed == [state |-> "none", apiKey |-> <<>>, endpoint |-> Undefined, error |-> NoError]

\* new TDJobClient(cfg)
TDJobClient(cfg) ==
    LET endpoint == EndpointLookup(cfg.site) IN
    IF ~Truthy(endpoint)
    THEN [state |-> "failed", apiKey |-> <<>>, endpoint |-> Undefined,
          error |-> NewError("Error", <<"Unknown TD site: ", cfg.site>>)]
    ELSE [state |-> "constructed", apiKey |-> cfg.td_api_key, endpoint |-> endpoint,
          error |-> NoError]

(***************************************************************************)
(* new URL(text) and url.toString(), for the texts the client builds: an   *)
(* origin followed by a path that may carry "/", ".", "?", "#" and spaces. *)
(***************************************************************************)
Origins == {JOB_ENDPOINTS[s] : s \in DOMAIN JOB_ENDPOINTS}

\* the parser first strips trailing spaces from its input
RECURSIVE TrimEnd(_)
TrimEnd(s) ==
    IF s # <<>> /\ s[Len(s)] = " " THEN TrimEnd(SubSeq(s, 1, Len(s) - 1)) ELSE s

\* the pieces of s between the occurrences of the token sep
RECURSIVE Split(_, _)
Split(s, sep) ==
    LET i == IndexOf(s, <<sep>>) IN
    IF i = 0 THEN <<s>>
    ELSE <<SubSeq(s, 1, i - 1)>> \o Split(SubSeq(s, i + 1, Len(s)), sep)

\* percent-encoding of the path, query and fragment encode sets, on the
\* characters of the model: a space becomes %20
RECURSIVE PercentEncode(_)
PercentEncode(s) ==
    IF s = <<>> THEN <<>>
    ELSE (IF Head(s) = " " THEN <<"%20">> ELSE <<Head(s)>>) \o PercentEncode(Tail(s))

\* the path state of the URL parser: ".." drops the last segment, "." is
\* skipped, and either one at the end leaves an empty last segment
RECURSIVE PathSegments(_, _)
PathSegments(raw, acc) ==
    IF raw = <<>> THEN acc
    ELSE LET seg  == Head(raw)
             last == Len(raw) = 1
             push == IF last THEN <<(<<>>)>> ELSE <<>>
         IN  IF seg = <<".", ".">>
             THEN PathSegments(Tail(raw),
                               (IF acc = <<>> THEN acc ELSE SubSeq(acc, 1, Len(acc) - 1)) \o push)
             ELSE IF seg = <<".">>
             THEN PathSegments(Tail(raw), acc \o push)
             ELSE PathSegments(Tail(raw), acc \o <<PercentEncode(seg)>>)

NoPart == [present |-> FALSE, text |-> <<>>]
Part(s) == [present |-> TRUE, text |-> s]

InvalidURL == [valid |-> FALSE, origin |-> "", path |-> <<>>, query |-> NoPart, fragment |-> NoPart]

\* new URL(text)
ParseURL(text) ==
    IF text = <<>> \/ Head(text) \notin Origins THEN InvalidURL
    ELSE LET rest     == TrimEnd(Tail(text))
             h        == IndexOf(rest, <<"#">>)
             noFrag   == IF h = 0 THEN rest ELSE SubSeq(rest, 1, h - 1)
             q        == IndexOf(noFrag, <<"?">>)
             pathText == IF q = 0 THEN noFrag ELSE SubSeq(noFrag, 1, q - 1)
             raw      == Split(pathText, "/")
         IN  [valid    |-> TRUE,
              origin   |-> Head(text),
              \* the text before the first "/" is empty: the path is absolute
              path     |-> PathSegments(IF Len(raw) > 1 THEN Tail(raw) ELSE <<(<<>>)>>, <<>>),
              query    |-> IF q = 0 THEN NoPart
                           ELSE Part(PercentEncode(SubSeq(noFrag, q + 1, Len(noFrag)))),
              fragment |-> IF h = 0 THEN NoPart
                           ELSE Part(PercentEncode(SubSeq(rest, h + 1, Len(rest))))]

RECURSIVE JoinPath(_)
JoinPath(segs) == IF segs = <<>> THEN <<>> ELSE <<"/">> \o Head(segs) \o JoinPath(Tail(segs))

\* url.pathname
Pathname(url) == IF url.path = <<>> THEN <<"/">> ELSE JoinPath(url.path)

\* url.toString()
Href(url) ==
    <<url.origin>> \o Pathname(url)
    \o (IF url.query.present THEN <<"?">> \o url.query.text ELSE <<>>)
    \o (IF url.fragment.present THEN <<"#">> \o url.fragment.text ELSE <<>>)

\* FormEncode leaving every character as it is
FormEncodeVerbatim(s) == s

\* application/x-www-form-urlencoded serialisation of one name or value
RECURSIVE FormEncode(_)
FormEncode(s) ==
    IF s = <<>> THEN <<>>
    ELSE (CASE Head(s) = " " -> <<"+">>
            [] Head(s) = "=" -> <<"%3D">>
            [] Head(s) = "&" -> <<"%26">>
            [] Head(s) = "+" -> <<"%2B">>
            [] Head(s) = "#" -> <<"%23">>
            [] Head(s) = "?" -> <<"%3F">>
            [] Head(s) = "/" -> <<"%2F">>
            [] OTHER -> <<Head(s)>>)
         \o FormEncode(Tail(s))

\* url.searchParams.append(key, value): the query becomes the serialised list
SearchParamsAppend(url, key, value) ==
    LET pair == FormEncode(key) \o <<"=">> \o FormEncode(value) IN
    [url EXCEPT !.query =
        IF url.query.present /\ url.query.text # <<>>
        THEN Part(url.query.text \o <<"&">> \o pair)
        ELSE Part(pair)]

(***************************************************************************)
(* JSON.parse and JSON.stringify, for the texts the remote side sends and  *)
(* the tool handlers print: null, numbers, strings, arrays and objects.    *)
(* An object is the sequence of its own properties in insertion order.     *)
(***************************************************************************)
Quote == "\""

JSArray(items) == [t |-> "array", items |-> items]

ParseFail == [ok |-> FALSE, v |-> Undefined, next |-> 0]

\* the first position from i on that holds no white space
RECURSIVE SkipWhitespace(_, _)
SkipWhitespace(t, i) ==
    IF i <= Len(t) /\ t[i] \in {" ", "\n"} THEN SkipWhitespace(t, i + 1) ELSE i

\* the first position after i that holds a quote, 0 when there is none
ClosingQuote(t, i) == IndexFrom(t, <<Quote>>, i + 1)

\* the characters a string literal stands for
Unescape(s) ==
    [i \in DOMAIN s |->
        CASE s[i] = "\\\"" -> Quote
          [] s[i] = "\\n" -> "\n"
          [] OTHER -> s[i]]

\* a string literal holds no raw line break
ParseStringAt(t, i) ==
    IF i > Len(t) \/ t[i] # Quote THEN ParseFail
    ELSE LET j == ClosingQuote(t, i) IN
         IF j = 0 \/ Includes(SubSeq(t, i + 1, j - 1), <<"\n">>) THEN ParseFail
         ELSE [ok |-> TRUE, v |-> Str(Unescape(SubSeq(t, i + 1, j - 1))), next |-> j + 1]

Digits == {"0", "1", "2", "3", "4", "5", "6", "7", "8", "9"}

DigitValue(d) == CHOOSE n \in 0..9 : Digit(n) = d

\* the digits from position i on, with the number read so far
RECURSIVE ParseDigitsAt(_, _, _)
ParseDigitsAt(t, i, n) ==
    IF i <= Len(t) /\ t[i] \in Digits
    THEN ParseDigitsAt(t, i + 1, 10 * n + DigitValue(t[i]))
    ELSE [ok |-> TRUE, v |-> Num(n), next |-> i]

\* an integer literal: an optional "-", then "0" or digits not led by "0"
ParseNumberAt(t, i) ==
    LET neg == i <= Len(t) /\ t[i] = "-"
        d   == IF neg THEN i + 1 ELSE i
    IN  IF d > Len(t) \/ t[d] \notin Digits THEN ParseFail
        ELSE IF t[d] = "0" /\ d + 1 <= Len(t) /\ t[d + 1] \in Digits THEN ParseFail
        ELSE LET r == ParseDigitsAt(t, d, 0) IN
             IF neg THEN [r EXCEPT !.v = Num(0 - r.v.v)] ELSE r

ParseScalarAt(t, i) ==
    IF i > Len(t) THEN ParseFail
    ELSE IF t[i] = "null" THEN [ok |-> TRUE, v |-> Null, next |-> i + 1]
    ELSE IF t[i] = Quote THEN ParseStringAt(t, i)
    ELSE ParseNumberAt(t, i)

HasField(fields, name) == \E i \in DOMAIN fields : fields[i].k = name

\* the own properties with name set to value: a new name is added last, a
\* repeated name keeps its place and takes the new value
WithField(fields, name, value) ==
    IF HasField(fields, name)
    THEN [i \in DOMAIN fields |-> IF fields[i].k = name THEN [k |-> name, v |-> value] ELSE fields[i]]
    ELSE Append(fields, [k |-> name, v |-> value])

RECURSIVE ParseValueAt(_, _)
RECURSIVE ParseMembersAt(_, _, _)
RECURSIVE ParseElementsAt(_, _, _)

\* the members of an object, from the key at or after position i on
ParseMembersAt(t, i, fields) ==
    LET key   == ParseStringAt(t, SkipWhitespace(t, i))
        colon == SkipWhitespace(t, key.next)
    IN  IF ~key.ok \/ colon > Len(t) \/ t[colon] # ":" THEN ParseFail
        ELSE LET val == ParseValueAt(t, colon + 1)
                 end == SkipWhitespace(t, val.next)
             IN  IF ~val.ok \/ end > Len(t) THEN ParseFail
                 ELSE LET now == WithField(fields, key.v.v, val.v) IN
                      IF t[end] = "}"
                      THEN [ok |-> TRUE, v |-> JSObject(now), next |-> end + 1]
                      ELSE IF t[end] = "," THEN ParseMembersAt(t, end + 1, now)
                      ELSE ParseFail

\* the elements of an array, from the value at or after position i on
ParseElementsAt(t, i, items) ==
    LET val == ParseValueAt(t, i)
        end == SkipWhitespace(t, val.next)
    IN  IF ~val.ok \/ end > Len(t) THEN ParseFail
        ELSE IF t[end] = "]"
        THEN [ok |-> TRUE, v |-> JSArray(Append(items, val.v)), next |-> end + 1]
        ELSE IF t[end] = "," THEN ParseElementsAt(t, end + 1, Append(items, val.v))
        ELSE ParseFail

ParseValueAt(t, i) ==
    LET b == SkipWhitespace(t, i)
        n == SkipWhitespace(t, b + 1)
    IN  IF b > Len(t) THEN ParseFail
        ELSE IF t[b] = "{"
        THEN IF n <= Len(t) /\ t[n] = "}"
             THEN [ok |-> TRUE, v |-> Obj, next |-> n + 1]
             ELSE ParseMembersAt(t, b + 1, <<>>)
        ELSE IF t[b] = "["
        THEN IF n <= Len(t) /\ t[n] = "]"
             THEN [ok |-> TRUE, v |-> JSArray(<<>>), next |-> n + 1]
             ELSE ParseElementsAt(t, b + 1, <<>>)
        ELSE ParseScalarAt(t, b)

\* JSON.parse(text): ok is FALSE when it throws a SyntaxError
JSONParse(text) ==
    LET r == ParseValueAt(text, 1) IN
    IF r.ok /\ SkipWhitespace(text, r.next) = Len(text) + 1
    THEN [ok |-> TRUE, v |-> r.v]
    ELSE [ok |-> FALSE, v |-> Undefined]

\* v.name for a parsed value: ok is FALSE when the access throws a TypeError
\* (v is null or undefined); a string, a number or an array has no such
\* property
GetProperty(v, name) ==
    CASE v.t \in {"null", "undefined"} -> [ok |-> FALSE, v |-> Undefined]
      [] v.t = "object" /\ HasField(v.fields, name) ->
            [ok |-> TRUE, v |-> v.fields[CHOOSE i \in DOMAIN v.fields : v.fields[i].k = name].v]
      [] OTHER -> [ok |-> TRUE, v |-> Undefined]

\* the characters of a string as a string literal writes them
Escape(s) ==
    [i \in DOMAIN s |->
        CASE s[i] = Quote -> "\\\""
          [] s[i] = "\n" -> "\\n"
          [] OTHER -> s[i]]

\* a line break and the indentation of the given depth, two spaces a level;
\* nothing when the text is not indented
Indentation(indented, depth) ==
    IF indented THEN <<"\n">> \o [i \in 1..(2 * depth) |-> " "] ELSE <<>>

\* the pieces joined by a comma, each on a line of its own when indented
RECURSIVE JoinItems(_, _, _)
JoinItems(pieces, indented, depth) ==
    IF pieces = <<>> THEN <<>>
    ELSE Indentation(indented, depth) \o Head(pieces)
         \o (IF Len(pieces) > 1 THEN <<",">> ELSE <<>>)
         \o JoinItems(Tail(pieces), indented, depth)

\* the properties JSON.stringify writes: those whose value is not undefined
RECURSIVE Written(_)
Written(fields) ==
    IF fields = <<>> THEN <<>>
    ELSE (IF Head(fields).v.t \in {"undefined", "function"} THEN <<>> ELSE <<Head(fields)>>)
         \o Written(Tail(fields))

\* JSON.stringify(v) and, indented, JSON.stringify(v, null, 2)
RECURSIVE Stringify(_, _, _)
Stringify(v, indented, depth) ==
    CASE v.t = "string" -> <<Quote>> \o Escape(v.v) \o <<Quote>>
      [] v.t = "number" -> TemplateString(v)
      [] v.t = "nan" -> <<"null">>
      [] v.t = "array" ->
            IF v.items = <<>> THEN <<"[", "]">>
            ELSE <<"[">>
                 \o JoinItems([i \in DOMAIN v.items |-> Stringify(v.items[i], indented, depth + 1)],
                              indented, depth + 1)
                 \o Indentation(indented, depth) \o <<"]">>
      [] v.t = "object" ->
            LET fields == Written(v.fields) IN
            IF fields = <<>> THEN <<"{", "}">>
            ELSE <<"{">>
                 \o JoinItems([i \in DOMAIN fields |->
                                  <<Quote>> \o Escape(fields[i].k) \o <<Quote, ":">>
                                  \o (IF indented THEN <<" ">> ELSE <<>>)
                                  \o Stringify(fields[i].v, indented, depth + 1)],
                              indented, depth + 1)
                 \o Indentation(indented, depth) \o <<"}">>
      [] OTHER -> <<"null">>

(***************************************************************************)
(* TDJobClient.request.                                                    *)
(***************************************************************************)
NoRequest == [url |-> <<>>, method |-> "", headers |-> <<>>]

\* Object.entries(params).forEach(append): params is the sequence of the
\* entries, in insertion order
RECURSIVE AppendParams(_, _)
AppendParams(url, params) ==
    IF params = <<>> THEN url
    ELSE AppendParams(SearchParamsAppend(url, Head(params).key, TemplateString(Head(params).value)),
                      Tail(params))

\* RequestHeaders with another authorization scheme
RequestHeadersBearer(cl) ==
    [h \in {"Authorization", "Content-Type", "Accept"} |->
        CASE h = "Authorization" -> <<"Bearer ">> \o cl.apiKey
          [] h = "Content-Type" -> <<"application/json">>
          [] h = "Accept" -> <<"application/json">>]

RequestHeaders(cl) ==
    [h \in {"Authorization", "Content-Type", "Accept"} |->
        CASE h = "Authorization" -> <<"TD1 ">> \o cl.apiKey
          [] h = "Content-Type" -> <<"application/json">>
          [] h = "Accept" -> <<"application/json">>]

\* request, up to its call of fetch: new URL throws a TypeError on a text
\* that is no URL, before the try block is entered
RequestStart(cl, method, path, params) ==
    LET url == ParseURL(TemplateString(cl.endpoint) \o path) IN
    IF ~url.valid
    THEN [threw |-> TRUE, error |-> NewError("TypeError", <<"Invalid URL">>), fetch |-> NoRequest]
    ELSE [threw |-> FALSE, error |-> NoError,
          fetch |-> [url |-> Href(AppendParams(url, params)), method |-> method,
                     headers |-> RequestHeaders(cl)]]

\* response.ok
ResponseOk(status) == status \in 200..299

\* ErrorDescription with the two fields tried in the other order
ErrorDescriptionErrorFirst(errorBody) ==
    LET errorJson == JSONParse(errorBody) IN
    IF ~errorJson.ok THEN errorBody
    ELSE LET message == GetProperty(errorJson.v, <<"message">>)
             error   == GetProperty(errorJson.v, <<"error">>)
         IN  IF ~message.ok THEN errorBody
             ELSE IF Truthy(error.v) THEN TemplateString(error.v)
             ELSE IF Truthy(message.v) THEN TemplateString(message.v)
             ELSE errorBody

\* errorJson.message || errorJson.error || errorBody, or errorBody alone when
\* JSON.parse or a property access throws
ErrorDescription(errorBody) ==
    LET errorJson == JSONParse(errorBody) IN
    IF ~errorJson.ok THEN errorBody
    ELSE LET message == GetProperty(errorJson.v, <<"message">>)
             error   == GetProperty(errorJson.v, <<"error">>)
         IN  IF ~message.ok THEN errorBody
             ELSE IF Truthy(message.v) THEN TemplateString(message.v)
             ELSE IF Truthy(error.v) THEN TemplateString(error.v)
             ELSE errorBody

\* the error thrown for a response that is not ok
HttpError(status, errorBody) ==
    [name    |-> "Error",
     message |-> <<"Job API Error: HTTP ">> \o NumToStr(status) \o <<" - ">>
                 \o ErrorDescription(errorBody),
     props   |-> [statusCode |-> status, responseBody |-> errorBody]]

\* the SyntaxError that response.json() rejects with for a text whose first
\* character already fits no JSON value, or that has no character at all;
\* its message quotes the text
JSONSyntaxError(text) ==
    NewError("SyntaxError",
             IF text = <<>> THEN <<"Unexpected end of JSON input">>
             ELSE <<"Unexpected token '", text[1], "', ", Quote>> \o text
                  \o <<Quote, " is not valid JSON">>)

\* MaskError throwing a new error with the masked message instead of
\* changing the message of the caught one
MaskErrorRethrown(cl, error) ==
    NewError(error.name, StringReplace(error.message, cl.apiKey, maskApiKey(cl.apiKey)))

\* the catch block: the message of the caught error with the API key masked
MaskError(cl, error) ==
    [error EXCEPT !.message = StringReplace(@, cl.apiKey, maskApiKey(cl.apiKey))]

\* OnRejected with the caught error replaced by one with a fixed message
OnRejectedGeneric(call, cl, error) ==
    [call EXCEPT !.pc = "failed", !.error = NewError(error.name, <<"Request failed">>)]

\* what request does with a rejection of fetch, or of the reading of the body
OnRejected(call, cl, error) ==
    [call EXCEPT !.pc = "failed", !.error = MaskError(cl, error)]

\* OnResponse with a decoded body that is no object turned down
OnResponseChecked(call, cl, status, body) ==
    IF ~ResponseOk(status)
    THEN [call EXCEPT !.pc = "failed", !.error = MaskError(cl, HttpError(status, body))]
    ELSE LET data == JSONParse(body) IN
         IF data.ok /\ data.v.t = "object"
         THEN [call EXCEPT !.pc = "returned", !.result = data.v]
         ELSE [call EXCEPT !.pc = "failed",
                           !.error = MaskError(cl, NewError("Error", <<"Unexpected response">>))]

\* OnResponse with the error of the decoding thrown as it is
OnResponseUnmasked(call, cl, status, body) ==
    IF ~ResponseOk(status)
    THEN [call EXCEPT !.pc = "failed", !.error = MaskError(cl, HttpError(status, body))]
    ELSE LET data == JSONParse(body) IN
         IF data.ok
         THEN [call EXCEPT !.pc = "returned", !.result = data.v]
         ELSE [call EXCEPT !.pc = "failed", !.error = JSONSyntaxError(body)]

\* what request does with a response
OnResponse(call, cl, status, body) ==
    IF ~ResponseOk(status)
    THEN [call EXCEPT !.pc = "failed", !.error = MaskError(cl, HttpError(status, body))]
    ELSE LET data == JSONParse(body) IN
         IF data.ok
         THEN [call EXCEPT !.pc = "returned", !.result = data.v]
         ELSE [call EXCEPT !.pc = "failed", !.error = MaskError(cl, JSONSyntaxError(body))]

(***************************************************************************)
(* The four operations.                                                    *)
(***************************************************************************)
ListFields == <<"from", "to", "status", "conditions", "skip", "limit">>

\* QueryParams with every field of params copied, a field left out as an
\* empty value
RECURSIVE QueryParamsEveryField(_, _)
QueryParamsEveryField(params, fields) ==
    IF fields = <<>> THEN <<>>
    ELSE <<[key |-> <<Head(fields)>>,
            value |-> IF Truthy(params[Head(fields)]) THEN params[Head(fields)] ELSE Str(<<>>)]>>
         \o QueryParamsEveryField(params, Tail(fields))

\* the queryParams of listJobs: the truthy fields of params, in the order of
\* the six if statements
RECURSIVE QueryParams(_, _)
QueryParams(params, fields) ==
    IF fields = <<>> THEN <<>>
    ELSE (IF Head(fields) \in DOMAIN params /\ Truthy(params[Head(fields)])
          THEN <<[key |-> <<Head(fields)>>, value |-> params[Head(fields)]]>>
          ELSE <<>>)
         \o QueryParams(params, Tail(fields))

listJobs(cl, params) == RequestStart(cl, "GET", <<"/", "v3", "/", "job", "/", "list">>, QueryParams(params, ListFields))

getJob(cl, jobId) == RequestStart(cl, "GET", <<"/", "v3", "/", "job", "/", "show", "/">> \o jobId, <<>>)

getJobStatus(cl, jobId) == RequestStart(cl, "GET", <<"/", "v3", "/", "job", "/", "status", "/">> \o jobId, <<>>)

getJobStatusByDomainKey(cl, domainKey) ==
    RequestStart(cl, "GET", <<"/", "v3", "/", "job", "/", "status_by_domain_key", "/">> \o domainKey, <<>>)

(***************************************************************************)
(* The argument schemas of the tool handlers.  Schema.parse(args) returns  *)
(* the validated arguments or throws a ZodError that lists every issue;    *)
(* of an issue the model keeps the path and the message.                   *)
(***************************************************************************)
JobStatuses == {"queued", "booting", "running", "success", "error", "killed"}

Issue(path, message) ==
    JSObject(<<[k |-> <<"path">>, v |-> JSArray(path)], [k |-> <<"message">>, v |-> Str(message)]>>)

\* the issue of a value that is required and undefined, or of another type
\* than the expected one; the type received is typeof v, with null and
\* arrays told apart
TypeIssue(path, expected, v) ==
    IF v = Undefined THEN Issue(path, <<"Required">>)
    ELSE Issue(path, <<"Expected ", expected, ", received ", v.t>>)

\* new ZodError(issues): its message is JSON.stringify(issues, null, 2)
ZodError(issues) == NewError("ZodError", Stringify(JSArray(issues), TRUE, 0))

\* ListJobsArgsSchema.parse(args): args is undefined or an object with the
\* six fields, a field left out being undefined; every field is optional
ListJobsArgsSchema(args) ==
    LET ListFieldIssues(f, v) ==
            LET path == <<Str(<<f>>)>> IN
            IF v = Undefined THEN <<>>
            ELSE IF f = "status"
            THEN IF v.t # "string" THEN <<TypeIssue(path, "'queued' | 'booting' | 'running' | 'success' | 'error' | 'killed'", v)>>
                 ELSE IF Len(v.v) = 1 /\ v.v[1] \in JobStatuses THEN <<>>
                 ELSE <<Issue(path, <<"Invalid enum value. Expected 'queued' | 'booting' | 'running' | 'success' | 'error' | 'killed', received '">> \o v.v \o <<"'">>)>>
            ELSE IF f = "conditions"
            THEN IF v.t # "string" THEN <<TypeIssue(path, "string", v)>> ELSE <<>>
            ELSE IF v.t # "number" THEN <<TypeIssue(path, "number", v)>>
            ELSE IF f = "skip" /\ v.v < 0
            THEN <<Issue(path, <<"Number must be greater than or equal to 0">>)>>
            ELSE IF f = "limit" /\ v.v < 1
            THEN <<Issue(path, <<"Number must be greater than or equal to 1">>)>>
            ELSE IF f = "limit" /\ v.v > 1000
            THEN <<Issue(path, <<"Number must be less than or equal to 1000">>)>>
            ELSE <<>>
        issues == IF args = Undefined THEN <<TypeIssue(<<>>, "object", args)>>
                  ELSE Flatten([i \in DOMAIN ListFields |->
                                   ListFieldIssues(ListFields[i], args[ListFields[i]])])
    IN  IF issues = <<>> THEN [ok |-> TRUE, value |-> args, error |-> NoError]
        ELSE [ok |-> FALSE, value |-> Undefined, error |-> ZodError(issues)]

\* GetJobStatusArgsSchema.parse(args): include_details is
\* z.boolean().optional().default(false)
GetJobStatusArgsSchema(args) ==
    LET IncludeDetailsIssues(v) ==
            IF v = Undefined \/ v.t = "boolean" THEN <<>>
            ELSE <<TypeIssue(<<Str(<<"include_details">>)>>, "boolean", v)>>
        issues == IF args = Undefined THEN <<TypeIssue(<<>>, "object", args)>>
                  ELSE (IF args.job_id.t = "string" THEN <<>>
                        ELSE <<TypeIssue(<<Str(<<"job_id">>)>>, "string", args.job_id)>>)
                       \o IncludeDetailsIssues(args.include_details)
    IN  IF issues = <<>>
        THEN [ok |-> TRUE, error |-> NoError,
              value |-> [job_id |-> args.job_id,
                         include_details |-> IF args.include_details = Undefined THEN Bool(FALSE)
                                             ELSE args.include_details]]
        ELSE [ok |-> FALSE, value |-> Undefined, error |-> ZodError(issues)]

\* GetJobArgsSchema.parse(args): a key the schema does not name is dropped
GetJobArgsSchema(args) ==
    LET issues == IF args = Undefined THEN <<TypeIssue(<<>>, "object", args)>>
                  ELSE IF args.job_id.t = "string" THEN <<>>
                  ELSE <<TypeIssue(<<Str(<<"job_id">>)>>, "string", args.job_id)>>
    IN  IF issues = <<>>
        THEN [ok |-> TRUE, error |-> NoError, value |-> [job_id |-> args.job_id]]
        ELSE [ok |-> FALSE, value |-> Undefined, error |-> ZodError(issues)]

(***************************************************************************)
(* What the tool handlers make of the value a call returned.  A step that  *)
(* throws yields threw = TRUE and the error; otherwise text is the text of *)
(* the result.                                                             *)
(***************************************************************************)
\* v is null or undefined: reading a property of it throws a TypeError
Nullish(v) == v.t \in {"null", "undefined"}

TypeErrorReading(v, name) ==
    NewError("TypeError", <<"Cannot read properties of ", v.t, " (reading '", name, "')">>)

\* v.name, for a v that is not nullish
Prop(v, name) == GetProperty(v, <<name>>).v

\* v?.name
OptionalProp(v, name) == IF Nullish(v) THEN Undefined ELSE Prop(v, name)

\* the properties copied from job under their own names, in the given order
Copied(job, names) == [i \in DOMAIN names |-> [k |-> <<names[i]>>, v |-> Prop(job, names[i])]]

\* fields with the property name added when the value is truthy
WithTruthy(fields, name, value) ==
    IF Truthy(value) THEN WithField(fields, <<name>>, value) ELSE fields

Formatted(text) == [threw |-> FALSE, error |-> NoError, text |-> text]
FormatThrew(error) == [threw |-> TRUE, error |-> error, text |-> <<>>]

NaN == [t |-> "nan"]

\* the day that the timestamps of the model belong to
DayText == "1970-01-02T"

\* Date.parse(s) for the ISO texts 1970-01-02THH:MM:SSZ and
\* 1970-01-02THH:MM:SS.mmmZ; NaN for any other text
DateParse(s) ==
    LET DayMillis == 86400000
        TwoDigits(t, i) == 10 * DigitValue(t[i]) + DigitValue(t[i + 1])
        shape(n) == /\ Len(s) = n
                    /\ s[1] = DayText
                    /\ s[4] = ":" /\ s[7] = ":" /\ s[n] = "Z"
                    /\ \A i \in {2, 3, 5, 6, 8, 9} : s[i] \in Digits
        seconds  == 3600 * TwoDigits(s, 2) + 60 * TwoDigits(s, 5) + TwoDigits(s, 8)
        inRange  == TwoDigits(s, 2) < 24 /\ TwoDigits(s, 5) < 60 /\ TwoDigits(s, 8) < 60
    IN  IF shape(10) /\ inRange THEN Num(DayMillis + 1000 * seconds)
        ELSE IF shape(14) /\ inRange /\ s[10] = "." /\ \A i \in 11..13 : s[i] \in Digits
        THEN Num(DayMillis + 1000 * seconds
                 + 100 * DigitValue(s[11]) + 10 * DigitValue(s[12]) + DigitValue(s[13]))
        ELSE NaN

\* MathRound with the fraction dropped
MathTrunc(n, d) == n \div d

\* Math.round(n / d) for integers n and d > 0: a half rounds upwards
MathRound(n, d) == (2 * n + d) \div (2 * d)

\* fields with execution_time_seconds added when job.start_at && job.end_at:
\* Math.round((endTime.getTime() - startTime.getTime()) / 1000)
WithExecutionTime(fields, job) ==
    LET GetTime(v) == CASE v.t = "string" -> DateParse(v.v)
                        [] v.t = "number" -> v
                        [] OTHER -> NaN
        startTime == GetTime(Prop(job, "start_at"))
        endTime   == GetTime(Prop(job, "end_at"))
        executionTime == IF startTime = NaN \/ endTime = NaN THEN NaN
                         ELSE Num(MathRound(endTime.v - startTime.v, 1000))
    IN  IF Truthy(Prop(job, "start_at")) /\ Truthy(Prop(job, "end_at"))
        THEN WithField(fields, <<"execution_time_seconds">>, executionTime)
        ELSE fields

\* s.toUpperCase(), on the words and characters of the model
ToUpperCase(s) ==
    [i \in DOMAIN s |->
        CASE s[i] = "queued" -> "QUEUED"
          [] s[i] = "booting" -> "BOOTING"
          [] s[i] = "running" -> "RUNNING"
          [] s[i] = "success" -> "SUCCESS"
          [] s[i] = "error" -> "ERROR"
          [] s[i] = "killed" -> "KILLED"
          [] s[i] = "x" -> "X"
          [] OTHER -> s[i]]

\* handleGetJobStatus from the value of getJobStatus on
FormatJobStatus(job, include_details) ==
    IF Nullish(job) THEN FormatThrew(TypeErrorReading(job, "job_id"))
    ELSE LET debug   == Prop(job, "debug")
             base    == Copied(job, <<"job_id", "status", "type", "database", "created_at",
                                      "updated_at", "start_at", "end_at", "num_records",
                                      "organization">>)
             errors  == WithTruthy(WithTruthy(base, "error_message", OptionalProp(debug, "stderr")),
                                   "output", OptionalProp(debug, "cmdout"))
             copy(fields, name) == WithField(fields, <<name>>, Prop(job, name))
             details == IF include_details
                        THEN WithTruthy(copy(copy(copy(copy(copy(errors, "query"), "url"),
                                                       "priority"), "retry_limit"), "result"),
                                        "debug", debug)
                        ELSE errors
             statusInfo == WithExecutionTime(details, job)
             status  == Prop(job, "status")
         IN  IF Nullish(status) THEN FormatThrew(TypeErrorReading(status, "toUpperCase"))
             ELSE IF status.t # "string"
             THEN FormatThrew(NewError("TypeError",
                                   <<"job.status.toUpperCase", " is not a function">>))
             ELSE Formatted(<<"Job Status: ">> \o ToUpperCase(status.v) \o <<"\n", "\n">>
                            \o Stringify(JSObject(statusInfo), TRUE, 0))

\* handleGetJob from the value of getJob on
FormatJob(job) ==
    IF Nullish(job) THEN FormatThrew(TypeErrorReading(job, "job_id"))
    ELSE LET debug == Prop(job, "debug")
             base  == Copied(job, <<"job_id", "type", "status", "database", "query", "url",
                                    "created_at", "updated_at", "start_at", "end_at",
                                    "num_records", "priority", "retry_limit", "result",
                                    "organization">>)
             shown == JSObject(WithTruthy(WithTruthy(<<>>, "error_message", Prop(debug, "stderr")),
                                          "output", Prop(debug, "cmdout")))
             jobDetails == WithExecutionTime(
                               IF Truthy(debug) THEN WithField(base, <<"debug">>, shown) ELSE base,
                               job)
         IN  Formatted(<<"Job Details:", "\n", "\n">> \o Stringify(JSObject(jobDetails), TRUE, 0))

\* the longest query that handleListJobs shows whole
QueryLimit == 200

\* ShownQuery with one character more shown whole
ShownQueryLate(query) ==
    IF Truthy(query) /\ query.t = "string" /\ Len(query.v) > QueryLimit + 1
    THEN Str(SubSeq(query.v, 1, QueryLimit) \o <<".", ".", ".">>)
    ELSE query

\* the query of a job as handleListJobs shows it
ShownQuery(query) ==
    IF Truthy(query) /\ query.t = "string" /\ Len(query.v) > QueryLimit
    THEN Str(SubSeq(query.v, 1, QueryLimit) \o <<".", ".", ".">>)
    ELSE query

\* one element of formattedJobs
FormattedJob(job) ==
    JSObject(WithTruthy(
        [i \in 1..13 |->
            LET name == <<"job_id", "type", "status", "database", "query", "created_at",
                          "updated_at", "start_at", "end_at", "num_records", "priority",
                          "retry_limit", "organization">>[i]
            IN  [k |-> <<name>>,
                 v |-> IF name = "query" THEN ShownQuery(Prop(job, name)) ELSE Prop(job, name)]],
        "error_message", OptionalProp(Prop(job, "debug"), "stderr")))

\* handleListJobs from the value of listJobs on
FormatJobList(result) ==
    IF Nullish(result) THEN FormatThrew(TypeErrorReading(result, "jobs"))
    ELSE LET jobs == Prop(result, "jobs") IN
         IF Nullish(jobs) THEN FormatThrew(TypeErrorReading(jobs, "map"))
         ELSE IF jobs.t # "array"
         THEN FormatThrew(NewError("TypeError", <<"result.jobs.map", " is not a function">>))
         ELSE IF \E i \in DOMAIN jobs.items : Nullish(jobs.items[i])
         THEN FormatThrew(TypeErrorReading(
                  jobs.items[CHOOSE i \in DOMAIN jobs.items :
                                 /\ Nullish(jobs.items[i])
                                 /\ \A j \in 1..(i - 1) : ~Nullish(jobs.items[j])],
                  "job_id"))
         ELSE Formatted(
                  <<"Found ">> \o TemplateString(Prop(result, "count")) \o <<" jobs:", "\n", "\n">>
                  \o Stringify(
                         JSObject(<<[k |-> <<"count">>, v |-> Prop(result, "count")],
                                    [k |-> <<"from">>, v |-> Prop(result, "from")],
                                    [k |-> <<"to">>, v |-> Prop(result, "to")],
                                    [k |-> <<"jobs">>,
                                     v |-> JSArray([i \in DOMAIN jobs.items |->
                                                       FormattedJob(jobs.items[i])])]>>),
                         TRUE, 0))

(***************************************************************************)
(* The inputs of the model.                                                *)
(***************************************************************************)
\* credentials: one shorter than what maskApiKey keeps, one longer, and one
\* longer whose first characters hold a replacement pattern of String.replace
KeyShort == <<"k", "k">>
KeyLong == <<"k", "e", "y", "a", "b", "c", "d", "e", "f">>
KeyDollar == <<"k", "$", "$", "e", "y", "a", "b", "c", "d">>
Credentials == {KeyShort, KeyLong, KeyDollar}

\* region tags: the six of the table, one unknown to JavaScript altogether,
\* and two that Object.prototype knows
Configs ==
    {[td_api_key |-> KeyLong, site |-> s] :
        s \in TDSites \cup {"unknown", "constructor", "__proto__"}}
    \cup {[td_api_key |-> k, site |-> "us01"] : k \in Credentials}

\* texts made of at most n parts, a part being the credential or a character
Texts(key, n) == {Flatten(ps) : ps \in SeqsUpTo({key, <<"x">>}, n)}

\* what the remote side sends as a body: a plain text, or the JSON text of
\* null, of a string, or of an object with optional message and error members
Absent == [p |-> "absent", s |-> <<>>]
NullField == [p |-> "null", s |-> <<>>]
StringField(s) == [p |-> "string", s |-> s]
FieldOptions(key) == {Absent, NullField} \cup {StringField(s) : s \in Texts(key, 1)}

TextBody(t) == [kind |-> "text", text |-> t, message |-> Absent, error |-> Absent]
NullBody == [kind |-> "null", text |-> <<>>, message |-> Absent, error |-> Absent]
StringBody(t) == [kind |-> "string", text |-> t, message |-> Absent, error |-> Absent]
ObjectBody(m, e) == [kind |-> "object", text |-> <<>>, message |-> m, error |-> e]

ErrorBodies(key) ==
    {TextBody(t) : t \in Texts(key, MaxParts)}
    \cup {NullBody}
    \cup {StringBody(t) : t \in Texts(key, 1)}
    \cup {ObjectBody(m, e) : m \in FieldOptions(key), e \in FieldOptions(key)}

\* the messages of the transport failures, computed once per credential;
\* one of them holds all of the credential but its last character
RejectionsOf ==
    [key \in Credentials |->
        Texts(key, MaxParts) \cup {SubSeq(key, 1, Len(key) - 1) \o <<"x">>}]
ErrorBodiesOf == [key \in Credentials |-> ErrorBodies(key)]

\* what a failing server sends with status 500
ServerErrorBodies == {TextBody(<<"x">>), TextBody(<<>>), ObjectBody(Absent, StringField(<<"x">>))}

\* a body that is the JSON text of the given value
ValueBody(v) == [kind |-> "value", text |-> <<>>, message |-> Absent, error |-> Absent, value |-> v]

\* what the remote side sends with a success status: a text that is no JSON,
\* JSON texts that are no record of the declared shape, a job record and a
\* job list (a job record, and a null in its place)
OkBodies ==
    LET job  == JSObject(<<[k |-> <<"job_id">>, v |-> Str(<<"7">>)],
                           [k |-> <<"num_records">>, v |-> Num(100)],
                           [k |-> <<"debug">>, v |-> JSObject(<<[k |-> <<"stderr">>, v |-> Null]>>)]>>)
        list == JSObject(<<[k |-> <<"count">>, v |-> Num(2)],
                           [k |-> <<"jobs">>, v |-> JSArray(<<job, Null>>)]>>)
    IN  {TextBody(<<"x">>), NullBody, ObjectBody(StringField(<<"x">>), Absent),
         StringBody(<<"x">>), ValueBody(job), ValueBody(list)}

\* JSON.stringify on the remote side
MemberText(name, f) ==
    IF f.p = "absent" THEN <<>>
    ELSE <<(<<Quote, name, Quote, ":">>
            \o (IF f.p = "null" THEN <<"null">> ELSE <<Quote>> \o f.s \o <<Quote>>))>>

RECURSIVE JoinComma(_)
JoinComma(ms) ==
    IF ms = <<>> THEN <<>>
    ELSE IF Len(ms) = 1 THEN Head(ms)
    ELSE Head(ms) \o <<",">> \o JoinComma(Tail(ms))

BodyText(b) ==
    CASE b.kind = "text" -> b.text
      [] b.kind = "null" -> <<"null">>
      [] b.kind = "string" -> <<Quote>> \o b.text \o <<Quote>>
      [] b.kind = "value" -> Stringify(b.value, FALSE, 0)
      [] b.kind = "object" ->
            <<"{">> \o JoinComma(MemberText("message", b.message) \o MemberText("error", b.error))
            \o <<"}">>

\* path parameters: a plain identifier, one that climbs out of its path
\* segment, one with a query, one with a fragment, one with a space
PathParams ==
    {<<"7">>, <<".", ".", "/", "list">>, <<"7", "?", "x">>, <<"7", "#", "x">>, <<"7", " ", "7">>}

\* filters of listJobs; a field the caller left out is undefined
NoFilter == [f \in {"from", "to", "status", "conditions", "skip", "limit"} |-> Undefined]

ListFilters ==
    <<NoFilter,
      [NoFilter EXCEPT !["status"] = Str(<<"running">>), !["limit"] = Num(10)],
      [NoFilter EXCEPT !["from"] = Num(0), !["skip"] = Num(0), !["conditions"] = Str(<<>>)],
      [NoFilter EXCEPT !["conditions"] = Str(<<"type", "=", "presto">>), !["to"] = Num(1704196800)]>>

(***************************************************************************)
(* The state: the configuration, the client built from it, and the calls   *)
(* made on the client.  A call is "awaiting" from its call of fetch until  *)
(* fetch settles, then "returned" or "failed" until its caller has the     *)
(* outcome.                                                                *)
(***************************************************************************)
Calls == 1..MaxCalls

NoResponse == [kind |-> "none", status |-> 0, body |-> <<>>, sent |-> TextBody(<<>>), message |-> <<>>]

\* prior: how the caller's previous call ended; overlap: whether another
\* call was in flight when this one began
IdleCall ==
    [pc |-> "idle", op |-> "none", arg |-> <<>>, prior |-> "idle", overlap |-> FALSE,
     nfetch |-> 0, req |-> NoRequest, resp |-> NoResponse, result |-> Undefined,
     error |-> NoError]

\* a tool handler that has not been called: the tool, its arguments, what
\* the schema made of them, the error its catch block caught and the result
\* it returned
IdleHandler ==
    [pc |-> "idle", tool |-> "none", args |-> Undefined, validated |-> Undefined,
     caught |-> NoError, result |-> Undefined]

Init ==
    /\ config \in Configs
    /\ client = NotConstructed
    /\ calls = [c \in Calls |-> IdleCall]
    /\ handler = IdleHandler
    /\ masked = <<>>

\* new TDJobClient(config), by createJobClient or directly
Construct ==
    /\ client.state = "none"
    /\ client' = TDJobClient(config)
    /\ UNCHANGED <<config, calls, handler, masked>>

\* the record of call c once request has run up to its call of fetch, or
\* has thrown before it
Started(c, op, arg, start) ==
    LET begun == [IdleCall EXCEPT !.op = op, !.arg = arg, !.prior = calls[c].prior,
                                  !.overlap = \E d \in Calls \ {c} : calls[d].pc = "awaiting"]
    IN  IF start.threw
        THEN [begun EXCEPT !.pc = "failed", !.error = start.error]
        ELSE [begun EXCEPT !.pc = "awaiting", !.nfetch = 1, !.req = start.fetch]

\* Store with the URL kept in a field of the client, which every call in
\* flight then reads
StoreShared(c, call) ==
    [d \in Calls |->
        IF d = c THEN call
        ELSE IF calls[d].pc = "awaiting" /\ call.pc = "awaiting"
        THEN [calls[d] EXCEPT !.req.url = call.req.url]
        ELSE calls[d]]

\* url, headers, response and error are locals of one invocation of request:
\* a step of call c writes the record of call c alone
Store(c, call) == [calls EXCEPT ![c] = call]

\* ClientAfterCall with the catch block masking the stored key itself
ClientAfterFailure(cl, call) ==
    IF call.pc = "failed" THEN [cl EXCEPT !.apiKey = maskApiKey(@)] ELSE cl

\* apiKey and endpoint are readonly: no step of a call assigns them
ClientAfterCall(cl, call) == cl

CanCall(c) == client.state = "constructed" /\ calls[c].pc = "idle"

\* one step of call c that leaves it as the record call
Step(c, call) ==
    /\ calls' = Store(c, call)
    /\ client' = ClientAfterCall(client, call)
    /\ UNCHANGED <<config, handler, masked>>

ListJobs(c, params) ==
    /\ CanCall(c)
    /\ Step(c, Started(c, "listJobs", params, listJobs(client, params)))

GetJob(c, jobId) ==
    /\ CanCall(c)
    /\ Step(c, Started(c, "getJob", jobId, getJob(client, jobId)))

GetJobStatus(c, jobId) ==
    /\ CanCall(c)
    /\ Step(c, Started(c, "getJobStatus", jobId, getJobStatus(client, jobId)))

GetJobStatusByDomainKey(c, domainKey) ==
    /\ CanCall(c)
    /\ Step(c, Started(c, "getJobStatusByDomainKey", domainKey,
                       getJobStatusByDomainKey(client, domainKey)))

Rejection(message) == [NoResponse EXCEPT !.kind = "rejected", !.message = message]

Response(status, sent) ==
    [NoResponse EXCEPT !.kind = "response", !.status = status, !.body = BodyText(sent),
                       !.sent = sent]

\* fetch rejects: a transport failure with the given message
FetchRejects(c, message) ==
    /\ calls[c].pc = "awaiting"
    /\ Step(c, OnRejected([calls[c] EXCEPT !.resp = Rejection(message)], client,
                          NewError("Error", message)))

\* fetch resolves with a response of the given status and body
FetchResolves(c, status, sent) ==
    /\ calls[c].pc = "awaiting"
    /\ Step(c, OnResponse([calls[c] EXCEPT !.resp = Response(status, sent)], client,
                          status, BodyText(sent)))

\* fetch resolves with a response of the given status, and reading its body
\* (response.text(), response.json()) then rejects: a transport failure with
\* the given message
BodyUnread(c, status, message) ==
    /\ calls[c].pc = "awaiting"
    /\ Step(c, OnRejected([calls[c] EXCEPT !.resp = [NoResponse EXCEPT !.kind = "unread",
                                                                        !.status = status,
                                                                        !.message = message]],
                          client, NewError("Error", message)))

\* the promise of call c settles: its caller receives the value or the
\* error, and is free to make its next call
Settle(c) ==
    /\ calls[c].pc \in {"returned", "failed"}
    /\ calls' = Store(c, [IdleCall EXCEPT !.prior = calls[c].pc])
    /\ UNCHANGED <<config, client, handler, masked>>

\* one caller making one call after the other, on every configuration
Next ==
    \/ Construct
    \/ Settle(1)
    \/ \E i \in 1..Len(ListFilters) : ListJobs(1, ListFilters[i])
    \/ \E p \in PathParams : GetJob(1, p)
    \/ \E p \in PathParams : GetJobStatus(1, p)
    \/ \E p \in PathParams : GetJobStatusByDomainKey(1, p)
    \/ \E m \in RejectionsOf[config.td_api_key] : FetchRejects(1, m)
    \/ \E b \in ErrorBodiesOf[config.td_api_key] : FetchResolves(1, 404, b)
    \/ \E b \in ServerErrorBodies : FetchResolves(1, 500, b)
    \/ \E b \in OkBodies \cup {TextBody(t) : t \in Texts(config.td_api_key, 1)} :
          FetchResolves(1, 200, b)
    \/ \E st \in {200, 404}, m \in Texts(config.td_api_key, 1) : BodyUnread(1, st, m)

Spec == Init /\ [][Next]_vars

(***************************************************************************)
(* Several call sites using the one client at once: each makes one call,   *)
(* and the calls interleave in every order.                                *)
(***************************************************************************)
ConcBodies == {ObjectBody(StringField(KeyLong), StringField(<<"x">>))}

InitConc ==
    /\ config = [td_api_key |-> KeyLong, site |-> "jp01"]
    /\ client = NotConstructed
    /\ calls = [c \in Calls |-> IdleCall]
    /\ handler = IdleHandler
    /\ masked = <<>>

NextConc ==
    \/ Construct
    \/ \E c \in Calls : ListJobs(c, ListFilters[2])
    \/ \E c \in Calls : GetJob(c, <<".", ".", "/", "list">>)
    \/ \E c \in Calls : GetJobStatus(c, <<"7">>)
    \/ \E c \in Calls : GetJobStatusByDomainKey(c, <<"7">>)
    \/ \E c \in Calls, m \in {KeyLong \o KeyLong} : FetchRejects(c, m)
    \/ \E c \in Calls, b \in ConcBodies : FetchResolves(c, 404, b)
    \/ \E c \in Calls, b \in ConcBodies : FetchResolves(c, 200, b)

SpecConc == InitConc /\ [][NextConc]_vars

(***************************************************************************)
(* listJobs on every filter the validation layer lets through: each field  *)
(* left out or given one of a few values, every combination of them.       *)
(***************************************************************************)
\* the values a field can take besides undefined: what ListJobsArgsSchema
\* accepts for it
ValidFilters ==
    LET Optional(values) == values \cup {Undefined} IN
    [from : Optional({Num(0), Num(1704067200)}),
     to : Optional({Num(1704196800)}),
     status : Optional({Str(<<"running">>)}),
     conditions : Optional({Str(<<>>), Str(<<"x", "&", "from", "=", "1">>)}),
     skip : Optional({Num(0), Num(5)}),
     limit : Optional({Num(1), Num(1000)})]

InitList ==
    /\ config = [td_api_key |-> KeyLong, site |-> "us01"]
    /\ client = NotConstructed
    /\ calls = [c \in Calls |-> IdleCall]
    /\ handler = IdleHandler
    /\ masked = <<>>

NextList ==
    \/ Construct
    \/ Settle(1)
    \/ \E p \in ValidFilters : ListJobs(1, p)
    \/ FetchResolves(1, 200, NullBody)

SpecList == InitList /\ [][NextList]_vars

(***************************************************************************)
(* The tool handlers.  A handler validates its arguments, constructs a     *)
(* client of its own, makes one call and formats the value; its catch      *)
(* block turns whatever was thrown on the way into an error result.        *)
(***************************************************************************)
\* the text the catch block of each handler puts before the message
ErrorPrefix(tool) ==
    CASE tool = "list_jobs" -> <<"Error listing jobs: ">>
      [] tool = "get_job_status" -> <<"Error getting job status: ">>
      [] tool = "get_job" -> <<"Error getting job details: ">>

\* ErrorResult without the isError flag
ErrorResultUnflagged(tool, error) ==
    [content |-> <<[type |-> "text", text |-> ErrorPrefix(tool) \o error.message]>>]

\* the value returned by the catch block; its text ends with
\* error instanceof Error ? error.message : 'Unknown error'
ErrorResult(tool, error) ==
    LET text == IF error.name = "none" THEN <<"Unknown error">> ELSE error.message IN
    [content |-> <<[type |-> "text", text |-> ErrorPrefix(tool) \o text]>>, isError |-> TRUE]

\* the value returned at the end of the try block
SuccessResult(text) == [content |-> <<[type |-> "text", text |-> text]>>]

\* Schema.parse(args) of each handler
ParseArgs(tool, args) ==
    CASE tool = "list_jobs" -> ListJobsArgsSchema(args)
      [] tool = "get_job_status" -> GetJobStatusArgsSchema(args)
      [] tool = "get_job" -> GetJobArgsSchema(args)

\* the handler h left through its catch block, with the error caught
Caught(h, error) ==
    [h EXCEPT !.pc = "done", !.caught = error, !.result = ErrorResult(h.tool, error)]

\* the handler h after its call has come to the outcome of the record call
Finished(h, call) ==
    IF call.pc = "failed" THEN Caught(h, call.error)
    ELSE LET formatted ==
                 CASE h.tool = "list_jobs" -> FormatJobList(call.result)
                   [] h.tool = "get_job_status" ->
                         FormatJobStatus(call.result, h.validated.include_details.v)
                   [] h.tool = "get_job" -> FormatJob(call.result)
         IN
         IF formatted.threw THEN Caught(h, formatted.error)
         ELSE [h EXCEPT !.pc = "done", !.result = SuccessResult(formatted.text)]

\* ValidateFirst with the client constructed before the arguments are parsed
ConstructFirst(tool, args) ==
    [args |-> ParseArgs(tool, args), client |-> TDJobClient(config)]

\* the first two statements of a handler: Schema.parse(args), then
\* createJobClient(config) when parse has not thrown
ValidateFirst(tool, args) ==
    LET parsed == ParseArgs(tool, args) IN
    [args |-> parsed, client |-> IF parsed.ok THEN TDJobClient(config) ELSE NotConstructed]

\* a handler is called: it runs up to its call of fetch, or to its end when
\* something throws before
Handle(tool, args) ==
    LET begun  == [IdleHandler EXCEPT !.tool = tool, !.args = args]
        first  == ValidateFirst(tool, args)
        parsed == first.args
        valid  == [begun EXCEPT !.validated = parsed.value]
        call   == CASE tool = "list_jobs" ->
                          Started(1, "listJobs", parsed.value,
                                  listJobs(first.client, parsed.value))
                    [] tool = "get_job_status" ->
                          Started(1, "getJobStatus", parsed.value.job_id.v,
                                  getJobStatus(first.client, parsed.value.job_id.v))
                    [] tool = "get_job" ->
                          Started(1, "getJob", parsed.value.job_id.v,
                                  getJob(first.client, parsed.value.job_id.v))
    IN  /\ handler.pc = "idle"
        /\ client' = first.client
        /\ IF ~parsed.ok
           THEN handler' = Caught(begun, parsed.error) /\ calls' = Store(1, IdleCall)
           ELSE IF first.client.state = "failed"
           THEN handler' = Caught(valid, first.client.error) /\ calls' = Store(1, IdleCall)
           ELSE /\ calls' = Store(1, call)
                /\ handler' = IF call.pc = "failed" THEN Caught(valid, call.error)
                              ELSE [valid EXCEPT !.pc = "awaiting"]
        /\ UNCHANGED <<config, masked>>

HandleListJobs(args) == Handle("list_jobs", args)

HandleGetJobStatus(args) == Handle("get_job_status", args)

HandleGetJob(args) == Handle("get_job", args)

\* the call of the handler comes to the outcome of the record call, and the
\* handler runs to its end
HandlerResumes(call) ==
    /\ handler.pc = "awaiting"
    /\ calls' = Store(1, call)
    /\ handler' = Finished(handler, call)
    /\ UNCHANGED <<config, client, masked>>

\* fetch rejects while the handler awaits its call
HandlerFetchRejects(message) ==
    HandlerResumes(OnRejected([calls[1] EXCEPT !.resp = Rejection(message)], client,
                              NewError("Error", message)))

\* fetch resolves while the handler awaits its call
HandlerFetchResolves(status, sent) ==
    HandlerResumes(OnResponse([calls[1] EXCEPT !.resp = Response(status, sent)], client,
                              status, BodyText(sent)))

\* the result is with the caller of the handler
HandlerReturns ==
    /\ handler.pc = "done"
    /\ handler' = IdleHandler
    /\ client' = NotConstructed
    /\ calls' = Store(1, IdleCall)
    /\ UNCHANGED <<config, masked>>


(***************************************************************************)
(* The tool handlers on the arguments and the responses of the model.      *)
(***************************************************************************)
\* the number of jobs in the longest list the remote side sends
MaxJobs == 2

\* the text HH:MM:SS of the given second of the day, then the milliseconds
\* when there are any
Timestamp(second, millis) ==
    LET two(n) == <<Digit(n \div 10), Digit(n % 10)>> IN
    <<DayText>> \o two(second \div 3600) \o <<":">> \o two((second \div 60) % 60) \o <<":">>
    \o two(second % 60)
    \o (IF millis = 0 THEN <<>>
        ELSE <<".", Digit(millis \div 100), Digit((millis \div 10) % 10), Digit(millis % 10)>>)
    \o <<"Z">>

\* a job record as the remote side sends it: the members that have a value
RemoteJob(status, query, start_at, end_at, debug) ==
    JSObject(Written(<<[k |-> <<"job_id">>, v |-> Str(<<"7">>)],
                       [k |-> <<"status">>, v |-> status],
                       [k |-> <<"query">>, v |-> query],
                       [k |-> <<"start_at">>, v |-> start_at],
                       [k |-> <<"end_at">>, v |-> end_at],
                       [k |-> <<"debug">>, v |-> debug]>>))

\* a query of n characters
QueryOfLength(n) == Str([i \in 1..n |-> IF i = 1 THEN Quote ELSE "q"])

\* the bodies of the responses with a success status: job records (with
\* start_at and end_at each left out, null or a timestamp, with debug
\* output, with a long query, with no status), job lists (of jobs with
\* queries around the limit, without one, with error output, and of nulls),
\* other JSON texts, and a text that is no JSON
ToolOkBodies ==
    LET starts == {Undefined, Null, Str(Timestamp(36000, 0)), Str(Timestamp(36000, 400)),
                   Str(Timestamp(36000, 500))}
        ends   == {Undefined, Null, Str(Timestamp(36150, 0)), Str(Timestamp(36002, 0)),
                   Str(Timestamp(35999, 0))}
        debug  == JSObject(<<[k |-> <<"cmdout">>, v |-> Str(<<"x">>)],
                             [k |-> <<"stderr">>, v |-> Str(<<"x", "x">>)]>>)
        jobs   == {RemoteJob(Str(<<"success">>), Str(<<"q">>), s, e, Undefined) :
                      s \in starts, e \in ends}
                  \cup {RemoteJob(Str(<<"error">>), Str(<<"q">>), Str(Timestamp(36000, 0)),
                                  Undefined, debug),
                        RemoteJob(Str(<<"running">>), QueryOfLength(QueryLimit + 1), Undefined,
                                  Undefined, Null),
                        RemoteJob(Undefined, Undefined, Undefined, Undefined, Undefined)}
        listed == {RemoteJob(Str(<<"success">>), QueryOfLength(n), Undefined, Undefined, Undefined) :
                      n \in {QueryLimit - 1, QueryLimit, QueryLimit + 1, QueryLimit + 50}}
                  \cup {RemoteJob(Str(<<"error">>), Null, Undefined, Undefined, debug), Null}
        list(items) == JSObject(<<[k |-> <<"count">>, v |-> Num(Len(items) + 40)],
                                  [k |-> <<"jobs">>, v |-> JSArray(items)]>>)
    IN  {ValueBody(v) : v \in jobs \cup {list(items) : items \in SeqsUpTo(listed, MaxJobs)}}
        \cup {NullBody, StringBody(<<"x">>), ValueBody(Obj), TextBody(<<"x">>)}

\* the arguments of handleListJobs: none, an empty filter, a valid one, and
\* filters with one field out of range or of the wrong type
ListJobsArgs ==
    {Undefined, NoFilter,
     [NoFilter EXCEPT !["status"] = Str(<<"running">>), !["limit"] = Num(1000)],
     [NoFilter EXCEPT !["limit"] = Num(0)],
     [NoFilter EXCEPT !["limit"] = Num(1001)],
     [NoFilter EXCEPT !["skip"] = Num(-1)],
     [NoFilter EXCEPT !["status"] = Str(<<"done">>)],
     [NoFilter EXCEPT !["from"] = Str(<<"x">>), !["limit"] = Num(0)]}

\* the arguments of handleGetJob and handleGetJobStatus: none, and objects
\* with job_id a string, a number or left out
JobArgs ==
    {Undefined}
    \cup {[job_id |-> j, include_details |-> d] :
            j \in {Str(<<"7">>), Num(7), Undefined}, d \in {Undefined, Bool(TRUE)}}

InitTools ==
    /\ config \in {[td_api_key |-> KeyLong, site |-> s] : s \in {"us01", "unknown", "constructor"}}
    /\ client = NotConstructed
    /\ calls = [c \in Calls |-> IdleCall]
    /\ handler = IdleHandler
    /\ masked = <<>>

NextTools ==
    \/ \E args \in ListJobsArgs : HandleListJobs(args)
    \/ \E args \in JobArgs : HandleGetJobStatus(args)
    \/ \E args \in JobArgs : HandleGetJob(args)
    \/ \E m \in {<<"x">>, KeyLong} : HandlerFetchRejects(m)
    \/ \E b \in {ObjectBody(StringField(<<"Job not found">>), Absent), TextBody(KeyLong)} :
          HandlerFetchResolves(404, b)
    \/ \E b \in ToolOkBodies : HandlerFetchResolves(200, b)
    \/ HandlerReturns

SpecTools == InitTools /\ [][NextTools]_vars


(***************************************************************************)
(* maskApiKey on its own: applied again and again to one credential, the   *)
(* masked forms kept in the order they were returned.                      *)
(***************************************************************************)
\* the credentials are made of two parts or more, a part being four
\* characters or the marker that maskApiKey puts between the two ends
InitMask ==
    /\ config \in {[td_api_key |-> Flatten(ps), site |-> "us01"] :
                      ps \in {qs \in SeqsUpTo({<<"k", "e", "y", "a">>, MaskMarker,
                                                <<"b", "c", "d", "e">>}, MaxParts + 1) :
                                 Len(qs) >= 2}}
    /\ client = NotConstructed
    /\ calls = [c \in Calls |-> IdleCall]
    /\ handler = IdleHandler
    /\ masked = <<>>

\* maskApiKey(this.apiKey)
MaskApiKey ==
    /\ Len(masked) < MaxCalls
    /\ masked' = Append(masked, maskApiKey(config.td_api_key))
    /\ UNCHANGED <<config, client, calls, handler>>

SpecMask == InitMask /\ [][MaskApiKey]_vars


(***************************************************************************)
(* The claims.                                                             *)
(***************************************************************************)
Key == config.td_api_key

\* call c failed on a transport rejection, of fetch or of the reading of the
\* body
TransportFailed(c) == calls[c].pc = "failed" /\ calls[c].resp.kind \in {"rejected", "unread"}

\* call c failed on a non-success HTTP status, the body of the response read
HttpFailed(c) ==
    /\ calls[c].pc = "failed"
    /\ calls[c].resp.kind = "response"
    /\ ~ResponseOk(calls[c].resp.status)

\* the start of operation op with argument arg on the client cl
StartOf(cl, op, arg) ==
    CASE op = "listJobs" -> listJobs(cl, arg)
      [] op = "getJob" -> getJob(cl, arg)
      [] op = "getJobStatus" -> getJobStatus(cl, arg)
      [] op = "getJobStatusByDomainKey" -> getJobStatusByDomainKey(cl, arg)

\* the record of call c is what its own operation, argument and response
\* make of it on the client cl
DeterminedBy(c, cl) ==
    LET call  == calls[c]
        start == StartOf(cl, call.op, call.arg)
    IN  /\ call.nfetch = (IF start.threw THEN 0 ELSE 1)
        /\ call.req = start.fetch
        /\ CASE call.resp.kind = "none" ->
                    IF start.threw
                    THEN call.pc = "failed" /\ call.error = start.error
                    ELSE call.pc = "awaiting"
             [] call.resp.kind \in {"rejected", "unread"} ->
                    call = OnRejected(call, cl, NewError("Error", call.resp.message))
             [] call.resp.kind = "response" ->
                    call = OnResponse(call, cl, call.resp.status, call.resp.body)

\* C1: the message of the error of a call that failed on a transport
\* rejection or on a non-success status holds no verbatim occurrence of the
\* credential, however often the credential occurred in the original
\* message or body.
C1_MessageHidesCredential ==
    \A c \in Calls :
        (TransportFailed(c) \/ HttpFailed(c)) => ~Includes(calls[c].error.message, Key)

\* C2: no error leaving the client exposes the credential: neither the
\* message of a construction error or of a call's error, nor the
\* responseBody or statusCode of a call's error, contains it.
C2_NoErrorExposesCredential ==
    /\ ~Includes(client.error.message, Key)
    /\ \A c \in Calls :
          calls[c].pc = "failed" =>
              /\ ~Includes(calls[c].error.message, Key)
              /\ "responseBody" \in DOMAIN calls[c].error.props =>
                     ~Includes(calls[c].error.props.responseBody, Key)
              /\ "statusCode" \in DOMAIN calls[c].error.props =>
                     ~Includes(NumToStr(calls[c].error.props.statusCode), Key)

\* C3: construction with a tag outside the six of the table fails with
\* 'Unknown TD site: <tag>', so that no client exists and no request is ever
\* issued for it; construction with one of the six succeeds.
C3_UnknownSiteFailsConstruction ==
    client.state # "none" =>
        IF config.site \in TDSites
        THEN client.state = "constructed"
        ELSE /\ client.state = "failed"
             /\ client.error.message = <<"Unknown TD site: ", config.site>>
             /\ \A c \in Calls : calls[c].nfetch = 0

\* the description the claim C4 names: the message member when the body is
\* a JSON object that has one, else the error member when it has one, else
\* the raw text
MemberValue(f) == IF f.p = "null" THEN <<"null">> ELSE f.s

DescriptionByPresence(sent) ==
    IF sent.kind = "object" /\ sent.message.p # "absent" THEN MemberValue(sent.message)
    ELSE IF sent.kind = "object" /\ sent.error.p # "absent" THEN MemberValue(sent.error)
    ELSE BodyText(sent)

\* the same with a member counting only when it is a non-empty string
DescriptionByTruth(sent) ==
    IF sent.kind = "object" /\ sent.message.p = "string" /\ sent.message.s # <<>>
    THEN sent.message.s
    ELSE IF sent.kind = "object" /\ sent.error.p = "string" /\ sent.error.s # <<>>
    THEN sent.error.s
    ELSE BodyText(sent)

HttpErrorText(status, description) ==
    <<"Job API Error: HTTP ">> \o NumToStr(status) \o <<" - ">> \o description

\* C4 as claimed: on a non-success status the message of the error is
\* 'Job API Error: HTTP <status> - <description>', the description being the
\* message member of a JSON object body that has one, else its error member,
\* else the raw body.
C4_MessageIsDescription ==
    \A c \in Calls :
        HttpFailed(c) =>
            calls[c].error.message =
                HttpErrorText(calls[c].resp.status, DescriptionByPresence(calls[c].resp.sent))

\* C4 as amended: on a non-success status whose body was read the message of
\* the error is
\* 'Job API Error: HTTP <status> - <description>' after the masking step
\* (the first occurrence of the credential replaced, as String.replace
\* does, by the masked form), the description being the message member of a
\* JSON object body when that is a non-empty string, else its error member
\* when that is a non-empty string, else the raw body.
C4_MessageIsMaskedDescription ==
    \A c \in Calls :
        HttpFailed(c) =>
            calls[c].error.message =
                StringReplace(
                    HttpErrorText(calls[c].resp.status, DescriptionByTruth(calls[c].resp.sent)),
                    Key, maskApiKey(Key))

\* a call failed on a body with both members, different and non-empty
C4_Witness ==
    \E c \in Calls :
        /\ HttpFailed(c)
        /\ calls[c].resp.sent.kind = "object"
        /\ calls[c].resp.sent.message.p = "string"
        /\ calls[c].resp.sent.error.p = "string"
        /\ calls[c].resp.sent.message.s # <<>>
        /\ calls[c].resp.sent.error.s # <<>>
        /\ calls[c].resp.sent.message.s # calls[c].resp.sent.error.s

\* C5: the error of a call that failed on a non-success status carries
\* statusCode, the status of the response, and responseBody, the raw body
\* text, and still does after the masking step.
C5_ErrorCarriesStatusAndBody ==
    \A c \in Calls :
        HttpFailed(c) =>
            /\ DOMAIN calls[c].error.props = {"statusCode", "responseBody"}
            /\ calls[c].error.props.statusCode = calls[c].resp.status
            /\ calls[c].error.props.responseBody = calls[c].resp.body

\* a call failed on a non-success status, and the masking step changed the
\* message of its error
C5_Witness ==
    \E c \in Calls :
        /\ HttpFailed(c)
        /\ calls[c].error.message
             # HttpError(calls[c].resp.status, calls[c].resp.body).message

\* C6: a call issues exactly one HTTP request and then returns or fails;
\* no call ever issues a second request.
C6_ExactlyOneRequest ==
    \A c \in Calls :
        /\ calls[c].nfetch <= 1
        /\ calls[c].pc \in {"awaiting", "returned", "failed"} => calls[c].nfetch = 1

\* C7: after any sequence of returned and failed calls the client holds the
\* credential and the base URL it was constructed with, and the request and
\* the outcome of a call are those of the same call on a client freshly
\* constructed from the configuration.
C7_ClientReusable ==
    /\ client.state = "constructed" => client = TDJobClient(config)
    /\ \A c \in Calls : calls[c].pc # "idle" => DeterminedBy(c, TDJobClient(config))

\* a call has come to its outcome after the caller's previous call failed
C7_Witness ==
    \E c \in Calls :
        /\ calls[c].prior = "failed"
        /\ calls[c].nfetch = 1
        /\ calls[c].pc \in {"returned", "failed"}

\* C8: in every interleaving of calls on the one client, the request and
\* the outcome of each call are made of its own operation, argument and
\* response alone, and a step of one call changes nothing of another call.
C8_CallsIndependent ==
    /\ [](\A c \in Calls : calls[c].pc # "idle" => DeterminedBy(c, client))
    /\ [][\A c \in Calls :
             calls'[c] # calls[c] => \A d \in Calls \ {c} : calls'[d] = calls[d]]_vars

\* a call began and failed while another call, to another URL, was in flight
C8_Witness ==
    \E c \in Calls, d \in Calls :
        /\ c # d
        /\ calls[c].pc = "awaiting"
        /\ calls[d].pc = "failed"
        /\ calls[d].overlap
        /\ calls[d].nfetch = 1
        /\ calls[d].req.url # calls[c].req.url

\* C9: every request is a GET with exactly the three headers Authorization:
\* 'TD1 <credential>', Content-Type: application/json and Accept:
\* application/json, the credential being that of the configuration.
C9_RequestIsAuthenticatedGet ==
    \A c \in Calls :
        calls[c].nfetch >= 1 =>
            /\ calls[c].req.method = "GET"
            /\ DOMAIN calls[c].req.headers = {"Authorization", "Content-Type", "Accept"}
            /\ calls[c].req.headers["Authorization"] = <<"TD1 ">> \o Key
            /\ calls[c].req.headers["Content-Type"] = <<"application/json">>
            /\ calls[c].req.headers["Accept"] = <<"application/json">>

\* a request by a client whose credential is not the default one
C9_Witness ==
    \E c \in Calls :
        /\ calls[c].nfetch = 1
        /\ calls[c].op = "getJobStatusByDomainKey"
        /\ Key = KeyDollar

\* the fixed path of each operation
PathTemplate(op) ==
    CASE op = "listJobs" -> <<"/", "v3", "/", "job", "/", "list">>
      [] op = "getJob" -> <<"/", "v3", "/", "job", "/", "show", "/">>
      [] op = "getJobStatus" -> <<"/", "v3", "/", "job", "/", "status", "/">>
      [] op = "getJobStatusByDomainKey" ->
            <<"/", "v3", "/", "job", "/", "status_by_domain_key", "/">>

\* C10: the URL of every request is the base URL of the configured region,
\* then the fixed path of the operation with the path parameter put in
\* verbatim, up to the percent-encoding of a URL (for listJobs: the fixed
\* path, then nothing or a query), so that no operation reaches the path of
\* another.
C10_UrlFollowsTemplate ==
    \A c \in Calls :
        calls[c].nfetch >= 1 =>
            LET base == <<JOB_ENDPOINTS[config.site]>> \o PathTemplate(calls[c].op)
                url  == calls[c].req.url
            IN  IF calls[c].op = "listJobs"
                THEN /\ StartsWithAt(url, base, 1)
                     /\ Len(url) > Len(base) => url[Len(base) + 1] = "?"
                ELSE url = base \o PercentEncode(calls[c].arg)

\* the query of a URL text: what follows its first "?", up to a "#"
QueryText(url) ==
    LET h      == IndexOf(url, <<"#">>)
        noFrag == IF h = 0 THEN url ELSE SubSeq(url, 1, h - 1)
        q      == IndexOf(noFrag, <<"?">>)
    IN  IF q = 0 THEN <<>> ELSE SubSeq(noFrag, q + 1, Len(noFrag))

\* the key=value pairs of a URL text, as the remote side reads them: the
\* query cut at every "&", each piece cut at its first "="
QueryPairs(url) ==
    LET pieces == IF QueryText(url) = <<>> THEN <<>> ELSE Split(QueryText(url), "&")
    IN  [i \in 1..Len(pieces) |->
            LET e == IndexOf(pieces[i], <<"=">>) IN
            IF e = 0 THEN [key |-> pieces[i], value |-> <<>>, eq |-> FALSE]
            ELSE [key |-> SubSeq(pieces[i], 1, e - 1),
                  value |-> SubSeq(pieces[i], e + 1, Len(pieces[i])), eq |-> TRUE]]

\* the fields of a filter that the caller supplied
Present(params) == {f \in DOMAIN params : params[f] # Undefined}

\* C11: in the URL of a listJobs request only fields that are present in
\* the filter appear as query parameters, each at most once: a field left
\* out never appears, not even as a key with an empty value, and with no
\* field present the URL is the base URL and the path, with no "?" at all.
C11_OnlyPresentFieldsInQuery ==
    \A c \in Calls :
        (calls[c].op = "listJobs" /\ calls[c].nfetch >= 1) =>
            LET pairs == QueryPairs(calls[c].req.url) IN
            /\ \A i \in 1..Len(pairs) :
                  /\ \E f \in Present(calls[c].arg) : pairs[i].key = <<f>>
                  /\ \A j \in 1..Len(pairs) : pairs[j].key = pairs[i].key => j = i
            /\ Present(calls[c].arg) = {} =>
                  calls[c].req.url = <<JOB_ENDPOINTS[config.site]>> \o PathTemplate("listJobs")

\* a listJobs request whose filter has some fields and lacks others, one of
\* the present ones a condition text that spells a parameter of its own
C11_Witness ==
    \E c \in Calls :
        /\ calls[c].op = "listJobs"
        /\ calls[c].nfetch = 1
        /\ calls[c].arg.from = Undefined
        /\ calls[c].arg.limit = Undefined
        /\ calls[c].arg.status # Undefined
        /\ calls[c].arg.conditions = Str(<<"x", "&", "from", "=", "1">>)
        /\ Len(QueryPairs(calls[c].req.url)) = 2

\* the text a form-urlencoded name or value stands for, as the remote side
\* decodes it
RECURSIVE FormDecode(_)
FormDecode(s) ==
    IF s = <<>> THEN <<>>
    ELSE (CASE Head(s) = "+" -> <<" ">>
            [] Head(s) = "%3D" -> <<"=">>
            [] Head(s) = "%26" -> <<"&">>
            [] Head(s) = "%2B" -> <<"+">>
            [] Head(s) = "%23" -> <<"#">>
            [] Head(s) = "%3F" -> <<"?">>
            [] Head(s) = "%2F" -> <<"/">>
            [] Head(s) = "%20" -> <<" ">>
            [] OTHER -> <<Head(s)>>)
         \o FormDecode(Tail(s))

\* the query of the URL carries the field f as key=value, the value standing
\* for the given one
Carries(url, f, value) ==
    \E i \in DOMAIN QueryPairs(url) :
        /\ QueryPairs(url)[i].key = <<f>>
        /\ QueryPairs(url)[i].eq
        /\ FormDecode(QueryPairs(url)[i].value) = TemplateString(value)

\* C12 as claimed: each field the caller supplied in a filter that the
\* validation layer accepts appears in the URL of the listJobs request as
\* key=value, carrying the supplied value.
C12_SuppliedFieldsInQuery ==
    \A c \in Calls :
        (calls[c].op = "listJobs" /\ calls[c].nfetch >= 1 /\ calls[c].arg \in ValidFilters) =>
            \A f \in Present(calls[c].arg) : Carries(calls[c].req.url, f, calls[c].arg[f])

\* C12 as amended: each supplied field whose value is truthy (a number other
\* than 0, a non-empty string) appears in the URL of the listJobs request as
\* key=value, carrying the supplied value; a supplied 0 or empty string is
\* left out of the URL like a field that was not supplied.
C12_TruthyFieldsInQuery ==
    \A c \in Calls :
        (calls[c].op = "listJobs" /\ calls[c].nfetch >= 1 /\ calls[c].arg \in ValidFilters) =>
            \A f \in Present(calls[c].arg) :
                IF Truthy(calls[c].arg[f])
                THEN Carries(calls[c].req.url, f, calls[c].arg[f])
                ELSE \A i \in DOMAIN QueryPairs(calls[c].req.url) :
                        QueryPairs(calls[c].req.url)[i].key # <<f>>

\* a listJobs request whose filter supplies a zero, an empty text, a number
\* and a text with characters that the query has to encode
C12_Witness ==
    \E c \in Calls :
        /\ calls[c].op = "listJobs"
        /\ calls[c].nfetch = 1
        /\ calls[c].arg.skip = Num(0)
        /\ calls[c].arg.from = Num(1704067200)
        /\ calls[c].arg.limit = Num(1000)
        /\ calls[c].arg.conditions = Str(<<"x", "&", "from", "=", "1">>)

\* the result of the handler is an error result: isError true and one text
\* item
IsErrorResult(result) ==
    /\ DOMAIN result = {"content", "isError"}
    /\ result.isError = TRUE
    /\ Len(result.content) = 1
    /\ result.content[1].type = "text"

\* the arguments that C13 names: for handleListJobs a limit outside
\* [1, 1000], a negative skip or a status outside the enumeration; for the
\* two other handlers no job_id that is a string
NamedInvalid(tool, args) ==
    IF tool = "list_jobs"
    THEN /\ args # Undefined
         /\ \/ args.limit.t = "number" /\ args.limit.v \notin 1..1000
            \/ args.skip.t = "number" /\ args.skip.v < 0
            \/ args.status.t = "string" /\ args.status.v \notin {<<s>> : s \in JobStatuses}
    ELSE args = Undefined \/ args.job_id.t # "string"

\* C13: a handler called with arguments that its schema rejects (a limit
\* outside [1, 1000], a negative skip, a status outside the enumeration, no
\* string job_id) returns an error result, and has by then constructed no
\* client and issued no request.
C13_ValidationBeforeClient ==
    (handler.pc = "done" /\ NamedInvalid(handler.tool, handler.args)) =>
        /\ IsErrorResult(handler.result)
        /\ client.state = "none"
        /\ \A c \in Calls : calls[c].pc = "idle" /\ calls[c].nfetch = 0

\* handleListJobs has returned from a call with a limit above 1000, on a
\* configuration that a client can be constructed from
C13_Witness ==
    /\ handler.pc = "done"
    /\ handler.tool = "list_jobs"
    /\ handler.args # Undefined
    /\ handler.args.limit = Num(1001)
    /\ config.site = "us01"

\* the prefix that C14 names for each handler
NamedPrefix(tool) ==
    CASE tool = "list_jobs" -> <<"Error listing jobs: ">>
      [] tool = "get_job_status" -> <<"Error getting job status: ">>
      [] tool = "get_job" -> <<"Error getting job details: ">>

\* the arguments no schema accepts: the ones C13 names, none at all, and a
\* from that is no number
Invalid(tool, args) ==
    \/ args = Undefined
    \/ NamedInvalid(tool, args)
    \/ tool = "list_jobs" /\ args.from.t \notin {"undefined", "number"}

\* C14: a handler always returns a result with exactly one text item.  When
\* anything failed on the way (the validation of the arguments, the
\* construction of the client, the transport, a non-success status, or the
\* formatting of the returned value) the result has isError true and its
\* text is the prefix of the handler followed by the message of that error;
\* when nothing failed the result has no isError flag.
C14_HandlerNeverThrows ==
    handler.pc = "done" =>
        LET result == handler.result
            text   == result.content[1].text
            failed(error) == /\ handler.caught = error
                             /\ IsErrorResult(result)
                             /\ text = NamedPrefix(handler.tool) \o error.message
        IN  /\ Len(result.content) = 1
            /\ result.content[1].type = "text"
            /\ IF Invalid(handler.tool, handler.args)
               THEN handler.caught.name = "ZodError" /\ failed(handler.caught)
               ELSE IF client.state = "failed" THEN failed(client.error)
               ELSE IF calls[1].pc = "failed" THEN failed(calls[1].error)
               ELSE /\ calls[1].pc = "returned"
                    /\ IF handler.caught # NoError
                       THEN handler.caught.name = "TypeError" /\ failed(handler.caught)
                       ELSE DOMAIN result = {"content"}

\* handleGetJobStatus has returned after its call failed on a non-success
\* status
C14_Witness ==
    /\ handler.pc = "done"
    /\ handler.tool = "get_job_status"
    /\ HttpFailed(1)
    /\ handler.result.content[1].text
         = <<"Error getting job status: ", "Job API Error: HTTP ", "4", "0", "4", " - ",
             "Job not found">>

\* C15: when the transport fails with an error whose message holds no
\* occurrence of the credential, the error that reaches the caller is the
\* original one: the same message, nothing added.
C15_MessageWithoutCredentialKept ==
    \A c \in Calls :
        (TransportFailed(c) /\ ~Includes(calls[c].resp.message, Key)) =>
            calls[c].error = NewError("Error", calls[c].resp.message)

\* a call failed on a transport error whose message holds all of the
\* credential but its last character
C15_Witness ==
    \E c \in Calls :
        /\ TransportFailed(c)
        /\ Key = KeyLong
        /\ calls[c].resp.message = <<"k", "e", "y", "a", "b", "c", "d", "e", "x">>

\* the value that the body the remote side sent stands for
SentField(name, f) ==
    IF f.p = "absent" THEN <<>>
    ELSE <<[k |-> <<name>>, v |-> IF f.p = "null" THEN Null ELSE Str(f.s)]>>

SentValue(sent) ==
    CASE sent.kind = "null" -> Null
      [] sent.kind = "string" -> Str(sent.text)
      [] sent.kind = "object" ->
            JSObject(SentField("message", sent.message) \o SentField("error", sent.error))
      [] sent.kind = "value" -> sent.value

\* C16: on a success status with a body that is a JSON text the call
\* returns the value the text stands for, whatever its shape: nothing is
\* added to it, removed from it or turned down.
C16_ReturnsDecodedBody ==
    \A c \in Calls :
        (/\ calls[c].resp.kind = "response"
         /\ ResponseOk(calls[c].resp.status)
         /\ calls[c].resp.sent.kind # "text") =>
            /\ calls[c].pc = "returned"
            /\ calls[c].result = SentValue(calls[c].resp.sent)
            /\ calls[c].error = NoError

\* getJobStatus has returned the null that the remote side sent in place of
\* a job record
C16_Witness ==
    \E c \in Calls :
        /\ calls[c].op = "getJobStatus"
        /\ calls[c].pc = "returned"
        /\ calls[c].resp.sent = NullBody
        /\ calls[c].result = Null

\* C17: the masked forms of one credential are all the same, and none of
\* them holds the credential as a substring.
C17_MaskHidesCredential ==
    /\ \A i, j \in DOMAIN masked : masked[i] = masked[j]
    /\ \A i \in DOMAIN masked : ~Includes(masked[i], Key)

\* the object that a handler shows under the heading of its text
ShownValue(text) ==
    JSONParse(SubSeq(text, IndexOf(text, <<"\n", "\n">>) + 2, Len(text)))

\* the record holds a timestamp under the name
HasTimestamp(job, name) == GetProperty(job, <<name>>).v.t = "string"

\* the milliseconds from start_at to end_at of the record
ElapsedMillis(job) ==
    DateParse(GetProperty(job, <<"end_at">>).v.v).v - DateParse(GetProperty(job, <<"start_at">>).v.v).v

\* C18: the object shown by handleGetJobStatus and by handleGetJob has a
\* member execution_time_seconds exactly when the job record holds both
\* start_at and end_at; the member is then an integer no further than half
\* a second from end_at minus start_at.
C18_ExecutionTimeShown ==
    (/\ handler.pc = "done"
     /\ handler.tool \in {"get_job_status", "get_job"}
     /\ calls[1].pc = "returned"
     /\ handler.caught = NoError) =>
        LET job   == SentValue(calls[1].resp.sent)
            shown == ShownValue(handler.result.content[1].text)
            both  == HasTimestamp(job, "start_at") /\ HasTimestamp(job, "end_at")
            time  == GetProperty(shown.v, <<"execution_time_seconds">>).v
        IN  /\ shown.ok
            /\ shown.v.t = "object"
            /\ HasField(shown.v.fields, <<"execution_time_seconds">>) <=> both
            /\ both => /\ time.t = "number"
                       /\ 2 * (ElapsedMillis(job) - 1000 * time.v) \in -1000..1000

\* handleGetJobStatus has shown 150 seconds for a job that ran from
\* 10:00:00.500 to 10:02:30
C18_Witness ==
    /\ handler.pc = "done"
    /\ handler.tool = "get_job_status"
    /\ calls[1].pc = "returned"
    /\ handler.caught = NoError
    /\ GetProperty(calls[1].result, <<"start_at">>).v = Str(Timestamp(36000, 500))
    /\ GetProperty(calls[1].result, <<"end_at">>).v = Str(Timestamp(36150, 0))
    /\ GetProperty(ShownValue(handler.result.content[1].text).v, <<"execution_time_seconds">>).v
         = Num(150)


\* the query that C19 expects to be shown for the query of a remote job
ExpectedQuery(query) ==
    IF query.t = "string" /\ Len(query.v) > 200
    THEN Str(SubSeq(query.v, 1, 200) \o <<".", ".", ".">>)
    ELSE query

\* the jobs of a job list, remote or shown
JobsOf(list) == GetProperty(list, <<"jobs">>).v

\* C19: the object shown by handleListJobs lists as many jobs as the remote
\* response, in the same order; a query longer than 200 characters is shown
\* as its first 200 characters followed by '...', any other query is shown
\* as it is, and no query shown is longer than 203 characters.
C19_LongQueriesTruncated ==
    (/\ handler.pc = "done"
     /\ handler.tool = "list_jobs"
     /\ calls[1].pc = "returned"
     /\ handler.caught = NoError) =>
        LET remote == JobsOf(SentValue(calls[1].resp.sent))
            shown  == ShownValue(handler.result.content[1].text)
            jobs   == JobsOf(shown.v)
        IN  /\ shown.ok
            /\ jobs.t = "array"
            /\ Len(jobs.items) = Len(remote.items)
            /\ \A i \in DOMAIN remote.items :
                  LET query == GetProperty(jobs.items[i], <<"query">>).v IN
                  /\ query = ExpectedQuery(GetProperty(remote.items[i], <<"query">>).v)
                  /\ query.t = "string" => Len(query.v) <= 203
                  /\ GetProperty(jobs.items[i], <<"status">>).v
                       = GetProperty(remote.items[i], <<"status">>).v

\* handleListJobs has shown a list of two jobs, the first with a query of
\* 201 characters cut to 203, the second with a query of 199 characters
C19_Witness ==
    /\ handler.pc = "done"
    /\ handler.tool = "list_jobs"
    /\ calls[1].pc = "returned"
    /\ handler.caught = NoError
    /\ LET remote == JobsOf(calls[1].result)
           jobs   == JobsOf(ShownValue(handler.result.content[1].text).v)
       IN  /\ Len(remote.items) = 2
           /\ Len(GetProperty(remote.items[1], <<"query">>).v.v) = 201
           /\ Len(GetProperty(remote.items[2], <<"query">>).v.v) = 199
           /\ Len(GetProperty(jobs.items[1], <<"query">>).v.v) = 203
           /\ Len(GetProperty(jobs.items[2], <<"query">>).v.v) = 199


\* the call failed on the decoding of the body of a response with a
\* success status
DecodingFailed(c) ==
    /\ calls[c].resp.kind = "response"
    /\ ResponseOk(calls[c].resp.status)
    /\ calls[c].resp.sent.kind = "text"

\* C20: a response with a success status whose body is no JSON text makes
\* the call fail: nothing is returned, the error is the SyntaxError of the
\* decoding with its message masked as the message of a transport error is,
\* it has neither statusCode nor responseBody, and fetch was called once.
C20_UndecodableBodyFails ==
    \A c \in Calls :
        DecodingFailed(c) =>
            LET thrown == JSONSyntaxError(calls[c].resp.sent.text) IN
            /\ calls[c].pc = "failed"
            /\ calls[c].result = Undefined
            /\ calls[c].error.name = "SyntaxError"
            /\ calls[c].error = OnRejected(calls[c], [client EXCEPT !.apiKey = Key], thrown).error
            /\ calls[c].error.props = <<>>
            /\ calls[c].nfetch = 1

\* a call failed on a body that is the credential and no JSON, and the
\* message of its error quotes the masked credential
C20_Witness ==
    \E c \in Calls :
        /\ DecodingFailed(c)
        /\ calls[c].pc = "failed"
        /\ Key = KeyLong
        /\ calls[c].resp.sent.text = KeyLong
        /\ calls[c].error.message
             = <<"Unexpected token '", "k", "', ", "\"", "k", "e", "y", "a", ".", ".", ".",
                 "c", "d", "e", "f", "\"", " is not valid JSON">>


====
